---- MODULE Spec2Model ----
(***************************************************************************)
(* Model of scripts/livsmedel_db_clean.py: a batch script that reads a     *)
(* food table, selects and renames a fixed set of columns, derives the     *)
(* IsVegan column with is_not_vegan and writes the result as CSV.          *)
(*                                                                         *)
(* Text is modelled as a sequence of characters, one string per character. *)
(* The non-ASCII letters are written as ASCII tokens: "o_uml" is o with    *)
(* diaeresis, "a_uml" a with diaeresis, "a_ring" a with ring, "e_grave" e  *)
(* with grave accent, and "O_uml", "A_uml", "A_ring", "E_grave" are their  *)
(* capitals.                                                               *)
(***************************************************************************)
EXTENDS Integers, Sequences, FiniteSets, TLC

VARIABLES
  pc,        \* the statement the script is about to run, "done" or "aborted"
  fs_input,  \* livsmedel.xlsx as found on disk: NoFile or a table
  df,        \* the frame read by read_excel
  df_clean,  \* the selected, renamed and classified frame
  applied,   \* values is_not_vegan has returned so far inside DataFrame.apply
  fs_output, \* LivsmedelsDB_Cleaned_Vegan.csv: NoFile or a table
  stdout,    \* the lines printed
  raised     \* the exception that ended the script, or "none"

vars == <<pc, fs_input, df, df_clean, applied, fs_output, stdout, raised>>

-----------------------------------------------------------------------------
(* Bounds of the model.                                                    *)

\* A food name is built from at most MaxParts fragments of NameParts.
MaxParts == 2
\* Tables of several rows have at most MaxRows rows.
MaxRows == 2

-----------------------------------------------------------------------------
(* Cells and text.                                                         *)

NaN == [kind |-> "nan", s |-> <<>>, v |-> 0]
Str(t) == [kind |-> "str", s |-> t, v |-> 0]
Num(n) == [kind |-> "num", s |-> <<>>, v |-> n]
Bool(b) == [kind |-> "bool", s |-> <<>>, v |-> IF b THEN 1 ELSE 0]

UpperChars ==
  << "A","B","C","D","E","F","G","H","I","J","K","L","M","N","O","P","Q",
     "R","S","T","U","V","W","X","Y","Z","A_ring","A_uml","O_uml","E_grave" >>
LowerChars ==
  << "a","b","c","d","e","f","g","h","i","j","k","l","m","n","o","p","q",
     "r","s","t","u","v","w","x","y","z","a_ring","a_uml","o_uml","e_grave" >>

\* The lower-case letter of each capital.
LowerOf ==
  [u \in {UpperChars[i] : i \in 1..Len(UpperChars)} |->
     LowerChars[CHOOSE i \in 1..Len(UpperChars) : UpperChars[i] = u]]

\* str.lower() on one character.
LowerChar(c) == IF c \in DOMAIN LowerOf THEN LowerOf[c] ELSE c

\* str.lower()
lower(t) == [i \in 1..Len(t) |-> LowerChar(t[i])]

\* str(value) of a Name or Category cell: text is kept, a missing cell
\* (float NaN) prints as "nan".
str(cell) == IF cell.kind = "str" THEN cell.s ELSE <<"n","a","n">>

\* The substring test with its operands swapped:  t in sub.
In_operands_swapped(sub, t) ==
  \E i \in 1..(Len(sub) - Len(t) + 1) : SubSeq(sub, i, i + Len(t) - 1) = t

\* Python's  sub in t  on text.
In(sub, t) ==
  \E i \in 1..(Len(t) - Len(sub) + 1) : SubSeq(t, i, i + Len(sub) - 1) = sub

-----------------------------------------------------------------------------
(* The lists of the script.                                                *)

non_vegan_categories ==
  << <<"K","o_uml","t","t">>,
     <<"F","i","s","k">>,
     <<"F","a_ring","g","e","l">>,
     <<"A_uml","g","g">>,
     <<"M","j","o_uml","l","k">>,
     <<"O","s","t">>,
     <<"G","r","a_uml","d","d","e">>,
     <<"S","m","o_uml","r">>,
     <<"I","n","a_uml","l","v","o","r">>,
     <<"C","h","a","r","k">>,
     <<"K","o","r","v">>,
     <<"S","k","a","l","d","j","u","r">> >>

non_vegan_keywords ==
  << <<"k","y","c","k","l","i","n","g">>,
     <<"n","o_uml","t">>,
     <<"g","r","i","s">>,
     <<"l","a","m","m">>,
     <<"f","i","s","k">>,
     <<"l","a","x">>,
     <<"t","o","r","s","k">>,
     <<"r","a_uml","k","o","r">>,
     <<"k","r","a_uml","f","t","o","r">>,
     <<"m","j","o_uml","l","k">>,
     <<"o","s","t">>,
     <<"s","m","o_uml","r">>,
     <<"g","r","a_uml","d","d","e">>,
     <<"a_uml","g","g">>,
     <<"h","o","n","u","n","g">>,
     <<"g","e","l","a","t","i","n">>,
     <<"v","a","s","s","l","e">>,
     <<"k","a","s","e","i","n">>,
     <<"y","o","g","h","u","r","t">>,
     <<"k","v","a","r","g">>,
     <<"f","i","l","m","j","o_uml","l","k">>,
     <<"c","r","e_grave","m","e"," ","f","r","a","i","c","h","e">>,
     <<"i","s","t","e","r">>,
     <<"t","a","l","g">>,
     <<"s","k","i","n","k","a">>,
     <<"b","a","c","o","n">>,
     <<"l","e","v","e","r">>,
     <<"b","l","o","d">>,
     <<"a","n","s","j","o","v","i","s">>,
     <<"s","a","r","d","e","l","l">>,
     <<"k","a","v","i","a","r">> >>

\* vegan_exceptions with the entry 'ris' left out.
vegan_exceptions_without_ris ==
  << <<"k","o","k","o","s">>,
     <<"h","a","v","r","e">>,
     <<"s","o","j","a">>,
     <<"m","a","n","d","e","l">>,
     <<"c","a","s","h","e","w">>,
     <<"j","o","r","d","n","o_uml","t">>,
     <<"v","a","l","n","o_uml","t">>,
     <<"h","a","s","s","e","l">>,
     <<"p","e","c","a","n">>,
     <<"p","i","s","t","a">>,
     <<"m","a","c","a","d","a","m","i","a">>,
     <<"p","a","r","a">>,
     <<"k","o","k","o","s","f","e","t","t">> >>

vegan_exceptions ==
  << <<"k","o","k","o","s">>,
     <<"h","a","v","r","e">>,
     <<"s","o","j","a">>,
     <<"m","a","n","d","e","l">>,
     <<"r","i","s">>,
     <<"c","a","s","h","e","w">>,
     <<"j","o","r","d","n","o_uml","t">>,
     <<"v","a","l","n","o_uml","t">>,
     <<"h","a","s","s","e","l">>,
     <<"p","e","c","a","n">>,
     <<"p","i","s","t","a">>,
     <<"m","a","c","a","d","a","m","i","a">>,
     <<"p","a","r","a">>,
     <<"k","o","k","o","s","f","e","t","t">> >>

\* The literals of the special case for "nöt".
kw_not == <<"n","o_uml","t">>
lit_notter == <<"n","o_uml","t","t","e","r">>
lit_fro == <<"f","r","o_uml">>

-----------------------------------------------------------------------------
(* is_not_vegan(row)                                                       *)

\* cholesterol > 0 raises TypeError when the cell holds text.
CholesterolRaises(row) == row["Cholesterol"].kind = "str"

\* Regel 1: cholesterol > 0; NaN > 0 is False.
CholesterolRule(row) ==
  row["Cholesterol"].kind = "num" /\ row["Cholesterol"].v > 0

\* Regel 2 with the list entry compared as written, not lower-cased.
CategoryRule_as_written(category) ==
  \E i \in 1..Len(non_vegan_categories) :
    In(non_vegan_categories[i], category)

\* Regel 2: some cat.lower() is in category.
CategoryRule(category) ==
  \E i \in 1..Len(non_vegan_categories) :
    In(lower(non_vegan_categories[i]), category)

\* The inner loop with is_exception assigned on every pass, so that the
\* last exception of the list decides.
NameHasException_last_wins(name) ==
  In(vegan_exceptions[Len(vegan_exceptions)], name)

\* The inner loop over vegan_exceptions.
NameHasException(name) ==
  \E i \in 1..Len(vegan_exceptions) : In(vegan_exceptions[i], name)

\* is_exception with the special case testing 'nötter' only.
is_exception_nuts_only(keyword, name, category) ==
  \/ \E i \in 1..Len(vegan_exceptions) : In(vegan_exceptions[i], name)
  \/ keyword = kw_not /\ In(lit_notter, category)

\* is_exception for one keyword found in the name.
is_exception(keyword, name, category) ==
  \/ NameHasException(name)
  \/ keyword = kw_not /\ (In(lit_notter, category) \/ In(lit_fro, category))

\* Regel 3 ending in  return True  when no keyword has matched.
RECURSIVE KeywordRule_default_deny(_, _, _)
KeywordRule_default_deny(i, name, category) ==
  IF i > Len(non_vegan_keywords) THEN TRUE
  ELSE IF /\ In(non_vegan_keywords[i], name)
          /\ ~(\/ \E e \in 1..Len(vegan_exceptions) : In(vegan_exceptions[e], name)
               \/ /\ non_vegan_keywords[i] = kw_not
                  /\ (In(lit_notter, category) \/ In(lit_fro, category)))
       THEN TRUE
       ELSE KeywordRule_default_deny(i + 1, name, category)

\* Regel 3 deciding on the first keyword found in the name: it returns
\* whether that keyword is no exception and looks at no later keyword.
RECURSIVE KeywordRule_first_found_decides(_, _, _)
KeywordRule_first_found_decides(i, name, category) ==
  IF i > Len(non_vegan_keywords) THEN FALSE
  ELSE IF In(non_vegan_keywords[i], name)
       THEN ~(\/ \E e \in 1..Len(vegan_exceptions) : In(vegan_exceptions[e], name)
              \/ /\ non_vegan_keywords[i] = kw_not
                 /\ (In(lit_notter, category) \/ In(lit_fro, category)))
       ELSE KeywordRule_first_found_decides(i + 1, name, category)

\* Regel 3: the loop over non_vegan_keywords from position i on; it returns
\* True at the first keyword that is in the name and is no exception, and
\* goes on to the next keyword otherwise.
RECURSIVE KeywordRule(_, _, _)
KeywordRule(i, name, category) ==
  IF i > Len(non_vegan_keywords) THEN FALSE
  ELSE IF /\ In(non_vegan_keywords[i], name)
          /\ ~is_exception(non_vegan_keywords[i], name, category)
       THEN TRUE
       ELSE KeywordRule(i + 1, name, category)

\* is_not_vegan with the exception substrings looked up before Regel 1.
is_not_vegan_exceptions_first(row) ==
  LET name == lower(str(row["Name"]))
      category == lower(str(row["Category"]))
  IN  IF \E e \in 1..Len(vegan_exceptions) : In(vegan_exceptions[e], name)
      THEN FALSE
      ELSE IF row["Cholesterol"].kind = "num" /\ row["Cholesterol"].v > 0
      THEN TRUE
      ELSE IF \E c \in 1..Len(non_vegan_categories) :
                In(lower(non_vegan_categories[c]), category)
      THEN TRUE
      ELSE \E k \in 1..Len(non_vegan_keywords) :
             /\ In(non_vegan_keywords[k], name)
             /\ ~(/\ non_vegan_keywords[k] = kw_not
                  /\ (In(lit_notter, category) \/ In(lit_fro, category)))

\* The value is_not_vegan returns for a row on which it does not raise.
is_not_vegan(row) ==
  LET name == lower(str(row["Name"]))
      category == lower(str(row["Category"]))
  IN  IF CholesterolRule(row) THEN TRUE
      ELSE IF CategoryRule(category) THEN TRUE
      ELSE KeywordRule(1, name, category)

-----------------------------------------------------------------------------
(* Frames and files.  A table is a list of column names and a list of      *)
(* rows; a row maps each column name to its cell.                          *)

NoFile == [exists |-> FALSE, cols |-> <<>>, rows |-> <<>>]
Table(cols, rows) == [exists |-> TRUE, cols |-> cols, rows |-> rows]

Range(f) == {f[i] : i \in DOMAIN f}

\* columns_to_keep, as the list of its (key, value) pairs in source order.
columns_to_keep ==
  << <<"Livsmedelsnamn", "Name">>,
     <<"Gruppering", "Category">>,
     <<"Energi (kcal)", "Calories">>,
     <<"Protein (g)", "Protein">>,
     <<"Fett, totalt (g)", "Fat">>,
     <<"Kolhydrater, tillgängliga (g)", "Carbs">>,
     <<"Fibrer (g)", "Fiber">>,
     <<"Sockerarter, totalt (g)", "Sugar">>,
     <<"Tillsatt socker (g)", "AddedSugar">>,
     <<"Fullkorn totalt (g)", "WholeGrains">>,
     <<"Summa mättade fettsyror (g)", "SaturatedFat">>,
     <<"Summa enkelomättade fettsyror (g)", "MonounsaturatedFat">>,
     <<"Summa fleromättade fettsyror (g)", "PolyunsaturatedFat">>,
     <<"Kolesterol (mg)", "Cholesterol">>,
     <<"Vitamin D (µg)", "VitaminD">>,
     <<"Vitamin B12 (µg)", "VitaminB12">>,
     <<"Järn, Fe (mg)", "Iron">>,
     <<"Zink, Zn (mg)", "Zinc">>,
     <<"Kalcium, Ca (mg)", "Calcium">>,
     <<"Linolensyra C18:3 (g)", "Omega3">>,
     <<"Linolsyra C18:2 (g)", "Omega6">> >>

\* list(columns_to_keep.keys())
keys == [i \in 1..Len(columns_to_keep) |-> columns_to_keep[i][1]]

\* The name rename(columns=columns_to_keep) gives a column.
Renamed(c) ==
  IF \E i \in 1..Len(columns_to_keep) : columns_to_keep[i][1] = c
  THEN columns_to_keep[CHOOSE i \in 1..Len(columns_to_keep) :
                         columns_to_keep[i][1] = c][2]
  ELSE c

\* df[list(columns_to_keep.keys())] raises KeyError when a key is no column.
MissingKeys(frame) == Range(keys) \ Range(frame.cols)

\* The selection followed by drop_duplicates(): a row equal to an earlier
\* row is left out.
select_columns_drop_duplicates(frame) ==
  LET kept(i) == [c \in {keys[j] : j \in DOMAIN keys} |-> frame.rows[i][c]]
      F[i \in 0..Len(frame.rows)] ==
        IF i = 0 THEN <<>>
        ELSE IF \E j \in 1..(i - 1) : kept(j) = kept(i) THEN F[i - 1]
        ELSE Append(F[i - 1], kept(i))
  IN  [exists |-> TRUE, cols |-> keys, rows |-> F[Len(frame.rows)]]

\* df[list(columns_to_keep.keys())].copy(): the listed columns, in the
\* order of the list, of every row, in the order of the rows.
select_columns(frame) ==
  Table(keys,
        [i \in 1..Len(frame.rows) |->
           [c \in Range(keys) |-> frame.rows[i][c]]])

\* rename(columns=columns_to_keep, inplace=True)
rename(frame) ==
  Table([j \in 1..Len(frame.cols) |-> Renamed(frame.cols[j])],
        [i \in 1..Len(frame.rows) |->
           [d \in {Renamed(c) : c \in Range(frame.cols)} |->
              frame.rows[i][CHOOSE c \in Range(frame.cols) : Renamed(c) = d]]])

\* frame[col] = values: the column is added as the last one when it is new,
\* and row i gets values[i].
set_column(frame, col, values) ==
  Table(IF col \in Range(frame.cols) THEN frame.cols
        ELSE Append(frame.cols, col),
        [i \in 1..Len(frame.rows) |->
           [c \in Range(frame.cols) \cup {col} |->
              IF c = col THEN values[i] ELSE frame.rows[i][c]]])

\* ~ on the Series apply returns.
invert(series) == [i \in 1..Len(series) |-> Bool(~series[i])]

\* The text to_csv writes for a cell: a missing value is the empty string,
\* a boolean is True or False, text is itself.  A number is written in
\* decimal; its digits are not modelled and the cell is kept as it is.
csv_cell(cell) ==
  CASE cell.kind = "nan" -> Str(<<>>)
    [] cell.kind = "bool" ->
         Str(IF cell.v = 1 THEN <<"T","r","u","e">>
             ELSE <<"F","a","l","s","e">>)
    [] OTHER -> cell

\* to_csv(output_filename, index=False): the header and every row in order.
to_csv(frame) ==
  Table(frame.cols,
        [i \in 1..Len(frame.rows) |->
           [c \in Range(frame.cols) |-> csv_cell(frame.rows[i][c])]])

\* df_clean['IsVegan'].sum()
CountVegan(frame) ==
  Cardinality({i \in 1..Len(frame.rows) : frame.rows[i]["IsVegan"] = Bool(TRUE)})

-----------------------------------------------------------------------------
(* The input files of the model.                                           *)

\* The fragments food names are built from.
NameParts ==
  { <<"K","o","k","o","s">>, <<"m","j","o_uml","l","k">>,
    <<"N","o_uml","t">>, <<"f","a_uml","r","s">>, <<"J","o","r","d">>,
    <<"n","o_uml","t","t","e","r">>, <<"S","M","O_uml","R">>,
    <<"T","o","f","u">>, <<"G","r","i","s">> }

\* The names of at most k fragments.
RECURSIVE NamesUpTo(_)
NamesUpTo(k) ==
  IF k <= 1 THEN NameParts
  ELSE NamesUpTo(k - 1) \cup
       {a \o b : a \in NamesUpTo(k - 1), b \in NameParts}

\* A Name cell: text, or missing.
NameCells == {NaN} \cup {Str(t) : t \in NamesUpTo(MaxParts)}

\* A Category cell: text, empty text, or missing.
CategoryCells ==
  { NaN, Str(<<>>),
    Str(<<"F","r","u","k","t">>),
    Str(<<"K","o_uml","t","t">>),
    Str(<<"N","o_uml","t","t","e","r"," ","o","c","h"," ","f","r","o_uml","n">>),
    Str(<<"F","r","o_uml","n">>) }

\* A Cholesterol cell: missing, a number of mg, or text that is no number.
CholesterolCells == {NaN, Num(0), Num(12), Str(<<"n","/","a">>)}

\* The columns of the sheet: a column the script does not keep, then the
\* columns it keeps.
SheetColumns == <<"Livsmedelsnummer">> \o keys

\* The sheet's columns without column c.
Without(cols, c) ==
  LET F[i \in 0..Len(cols)] ==
        IF i = 0 THEN <<>>
        ELSE IF cols[i] = c THEN F[i - 1] ELSE Append(F[i - 1], cols[i])
  IN  F[Len(cols)]

\* A row of the sheet over the columns cols.
SheetRow(cols, name, category, cholesterol) ==
  [c \in Range(cols) |->
     CASE c = "Livsmedelsnamn" -> name
       [] c = "Gruppering" -> category
       [] c = "Kolesterol (mg)" -> cholesterol
       [] c = "Livsmedelsnummer" -> Num(1)
       [] OTHER -> Num(0)]

\* Every sheet of one row with all the columns.
OneRowSheets ==
  { Table(SheetColumns, << SheetRow(SheetColumns, n, c, ch) >>) :
      n \in NameCells, c \in CategoryCells, ch \in CholesterolCells }

\* The foods of the sheets of several rows, as <<name, category, cholesterol>>.
SampleFoods ==
  { << Str(<<"T","o","f","u">>), Str(<<"F","r","u","k","t">>), Num(0) >>,
    << Str(<<"N","o_uml","t","f","a_uml","r","s">>),
       Str(<<"K","o_uml","t","t">>), Num(12) >>,
    << Str(<<"K","o","k","o","s","m","j","o_uml","l","k">>), NaN, NaN >>,
    << Str(<<"S","M","O_uml","R">>), Str(<<>>), Num(0) >>,
    << Str(<<"J","o","r","d","n","o_uml","t","t","e","r">>),
       Str(<<"N","o_uml","t","t","e","r"," ","o","c","h"," ","f","r","o_uml","n">>),
       NaN >>,
    << NaN, Str(<<"F","r","u","k","t">>), Str(<<"n","/","a">>) >> }

\* The lists of at most k foods.
RECURSIVE FoodLists(_)
FoodLists(k) ==
  IF k = 0 THEN {<<>>}
  ELSE FoodLists(k - 1) \cup
       {Append(l, f) : l \in {m \in FoodLists(k - 1) : Len(m) = k - 1},
                       f \in SampleFoods}

\* The column lists of the sheets of several rows: all the columns, or one
\* kept column absent.
SampleColumns ==
  { SheetColumns,
    Without(SheetColumns, "Livsmedelsnamn"),
    Without(SheetColumns, "Kolesterol (mg)"),
    Without(SheetColumns, "Linolsyra C18:2 (g)") }

\* The sheets of zero to MaxRows rows.
SampleSheets ==
  { Table(cols, [i \in 1..Len(l) |-> SheetRow(cols, l[i][1], l[i][2], l[i][3])]) :
      cols \in SampleColumns, l \in FoodLists(MaxRows) }

\* What read_excel can find: no readable file, or a sheet (its rows are
\* those below the header row, the two rows above it being skipped).
InputFiles == {NoFile} \cup OneRowSheets \cup SampleSheets

-----------------------------------------------------------------------------
(* The script, statement by statement.                                     *)

Init ==
  /\ pc = "read_excel"
  /\ fs_input \in InputFiles
  /\ df = NoFile
  /\ df_clean = NoFile
  /\ applied = <<>>
  /\ fs_output = NoFile
  /\ stdout = <<>>
  /\ raised = "none"

\* The exception caught and the script going on to its last statements.
Abort_caught(exception) ==
  /\ pc' = "to_csv"
  /\ raised' = exception

\* An uncaught exception ends the script.
Abort(exception) ==
  /\ pc' = "aborted"
  /\ raised' = exception

\* Line 12: df = pd.read_excel(input_filename, skiprows=2)
ReadExcel ==
  /\ pc = "read_excel"
  /\ IF ~fs_input.exists
     THEN /\ Abort("FileNotFoundError")
          /\ UNCHANGED df
     ELSE /\ df' = fs_input
          /\ pc' = "select"
          /\ UNCHANGED raised
  /\ UNCHANGED <<fs_input, df_clean, applied, fs_output, stdout>>

\* Line 40: df_clean = df[list(columns_to_keep.keys())].copy()
SelectColumns ==
  /\ pc = "select"
  /\ IF MissingKeys(df) # {}
     THEN /\ Abort("KeyError")
          /\ UNCHANGED df_clean
     ELSE /\ df_clean' = select_columns(df)
          /\ pc' = "rename"
          /\ UNCHANGED raised
  /\ UNCHANGED <<fs_input, df, applied, fs_output, stdout>>

\* Line 41: df_clean.rename(columns=columns_to_keep, inplace=True)
Rename ==
  /\ pc = "rename"
  /\ df_clean' = rename(df_clean)
  /\ pc' = "default"
  /\ UNCHANGED <<fs_input, df, applied, fs_output, stdout, raised>>

\* Line 45: df_clean['IsVegan'] = True
DefaultIsVegan ==
  /\ pc = "default"
  /\ df_clean' = set_column(df_clean, "IsVegan",
                            [i \in 1..Len(df_clean.rows) |-> Bool(TRUE)])
  /\ pc' = "apply"
  /\ UNCHANGED <<fs_input, df, applied, fs_output, stdout, raised>>

\* Line 102, df_clean.apply(is_not_vegan, axis=1): the call of is_not_vegan
\* on the next row, in row order.
ApplyRow ==
  /\ pc = "apply"
  /\ Len(applied) < Len(df_clean.rows)
  /\ LET row == df_clean.rows[Len(applied) + 1]
     IN  IF CholesterolRaises(row)
         THEN /\ Abort("TypeError")
              /\ UNCHANGED applied
         ELSE /\ applied' = Append(applied, is_not_vegan(row))
              /\ UNCHANGED <<pc, raised>>
  /\ UNCHANGED <<fs_input, df, df_clean, fs_output, stdout>>

\* Line 102, df_clean['IsVegan'] = ~(...): once every row has been applied.
\* On a frame without rows apply calls is_not_vegan on no row and what it
\* returns (and whether ~ and the assignment accept it) depends on the
\* pandas version: the statement either raises or leaves the empty frame.
AssignIsVegan ==
  /\ pc = "apply"
  /\ Len(applied) = Len(df_clean.rows)
  /\ \/ /\ df_clean' = set_column(df_clean, "IsVegan", invert(applied))
        /\ pc' = "to_csv"
        /\ UNCHANGED raised
     \/ /\ Len(df_clean.rows) = 0
        /\ Abort("TypeError")
        /\ UNCHANGED df_clean
  /\ UNCHANGED <<fs_input, df, applied, fs_output, stdout>>

\* Line 106: df_clean.to_csv(output_filename, index=False)
ToCsv ==
  /\ pc = "to_csv"
  /\ fs_output' = to_csv(df_clean)
  /\ pc' = "print"
  /\ UNCHANGED <<fs_input, df, df_clean, applied, stdout, raised>>

\* Lines 108-110: the summary; the number of vegan rows is what is kept.
PrintSummary ==
  /\ pc = "print"
  /\ stdout' = Append(stdout, CountVegan(df_clean))
  /\ pc' = "done"
  /\ UNCHANGED <<fs_input, df, df_clean, applied, fs_output, raised>>

Next ==
  \/ ReadExcel
  \/ SelectColumns
  \/ Rename
  \/ DefaultIsVegan
  \/ ApplyRow
  \/ AssignIsVegan
  \/ ToCsv
  \/ PrintSummary

Spec == Init /\ [][Next]_vars

-----------------------------------------------------------------------------
(* The vocabulary of the properties, stated on the sheet that was read:    *)
(* row i of the sheet is the record, and the verdict is what the script    *)
(* has derived for row i.                                                  *)

\* The text of a cell; a missing cell has no text.
TextOf(cell) == IF cell.kind = "str" THEN cell.s ELSE <<>>

FoldedName(i) == lower(TextOf(fs_input.rows[i]["Livsmedelsnamn"]))
FoldedCategory(i) == lower(TextOf(fs_input.rows[i]["Gruppering"]))
CholesterolOf(i) == fs_input.rows[i]["Kolesterol (mg)"]

\* Cholesterol is a number greater than 0.
CholesterolPositive(i) ==
  CholesterolOf(i).kind = "num" /\ CholesterolOf(i).v > 0

\* Cholesterol is null, or a number not greater than 0.
CholesterolNotPositive(i) ==
  \/ CholesterolOf(i).kind = "nan"
  \/ CholesterolOf(i).kind = "num" /\ CholesterolOf(i).v <= 0

\* The folded category contains the folded form of a non-vegan category.
CategoryMatches(i) ==
  \E e \in Range(non_vegan_categories) : In(lower(e), FoldedCategory(i))

\* The positions of the keywords that occur in the folded name.
KeywordsIn(i) ==
  {k \in 1..Len(non_vegan_keywords) : In(non_vegan_keywords[k], FoldedName(i))}

\* The folded name contains a vegan-exception substring.
ExceptionIn(i) ==
  \E e \in Range(vegan_exceptions) : In(e, FoldedName(i))

\* The folded category contains a nut or seed marker.
NutSeedCategory(i) ==
  In(lit_notter, FoldedCategory(i)) \/ In(lit_fro, FoldedCategory(i))

\* is_not_vegan has been called on row i and has returned.
Classified(i) == i \in 1..Len(applied)

\* The IsVegan column holds the derived values (line 102 has run).
Derived == pc \in {"to_csv", "print", "done"}

TextTrue == <<"T","r","u","e">>
TextFalse == <<"F","a","l","s","e">>

\* Row i is classified non-vegan, wherever its verdict is held.
NonVegan(i) ==
  /\ applied[i] = TRUE
  /\ Derived => df_clean.rows[i]["IsVegan"] = Bool(FALSE)
  /\ fs_output.exists => fs_output.rows[i]["IsVegan"] = Str(TextFalse)

\* Row i is classified vegan, wherever its verdict is held.
Vegan(i) ==
  /\ applied[i] = FALSE
  /\ Derived => df_clean.rows[i]["IsVegan"] = Bool(TRUE)
  /\ fs_output.exists => fs_output.rows[i]["IsVegan"] = Str(TextTrue)

-----------------------------------------------------------------------------
\* C1: every classified record whose cholesterol is a number greater than
\* 0 is non-vegan, whatever its name and category are.
C1_CholesterolDominance ==
  \A i \in 1..Len(applied) : CholesterolPositive(i) => NonVegan(i)

\* A record with positive cholesterol, an exception substring in its name
\* and a nut/seed category has been classified and written.
C1_Witness ==
  /\ fs_output.exists
  /\ \E i \in 1..Len(applied) :
       CholesterolPositive(i) /\ ExceptionIn(i) /\ NutSeedCategory(i)

\* C2: every classified record whose cholesterol is null or not greater
\* than 0 and whose folded category contains the folded form of a
\* non-vegan category is non-vegan, whatever its name is.
C2_CategoryShortCircuit ==
  \A i \in 1..Len(applied) :
    (CholesterolNotPositive(i) /\ CategoryMatches(i)) => NonVegan(i)

\* 'Tofu' (no keyword in the name) of category 'Kött' with null
\* cholesterol has been classified and written.
C2_Witness ==
  /\ fs_output.exists
  /\ \E i \in 1..Len(applied) :
       /\ fs_input.rows[i]["Livsmedelsnamn"] = Str(<<"T","o","f","u">>)
       /\ fs_input.rows[i]["Gruppering"] = Str(<<"K","o_uml","t","t">>)
       /\ CholesterolOf(i).kind = "nan"
       /\ CategoryMatches(i)
       /\ KeywordsIn(i) = {}

\* C3: every classified record whose cholesterol is 0 or null, whose
\* category matches no non-vegan category and whose folded name contains a
\* vegan-exception substring is vegan, also when the name contains a
\* non-vegan keyword.
C3_ExceptionSuppression ==
  \A i \in 1..Len(applied) :
    (CholesterolNotPositive(i) /\ ~CategoryMatches(i) /\ ExceptionIn(i))
      => Vegan(i)

\* 'Kokosmjölk' (keyword 'mjölk', exception 'kokos') with null cholesterol
\* has been classified and written.
C3_Witness ==
  /\ fs_output.exists
  /\ \E i \in 1..Len(applied) :
       /\ fs_input.rows[i]["Livsmedelsnamn"] =
            Str(<<"K","o","k","o","s","m","j","o_uml","l","k">>)
       /\ CholesterolOf(i).kind = "nan"
       /\ ~CategoryMatches(i)
       /\ KeywordsIn(i) # {}
       /\ ExceptionIn(i)

\* C4: a classified record on which no rule matches (cholesterol null or
\* not greater than 0, no non-vegan category in the category, no keyword in
\* the name) is vegan, and a record is non-vegan only if its cholesterol is
\* positive, its category matches or its name contains a keyword.
C4_DefaultAllow ==
  \A i \in 1..Len(applied) :
    /\ (CholesterolNotPositive(i) /\ ~CategoryMatches(i) /\ KeywordsIn(i) = {})
         => Vegan(i)
    /\ applied[i] = TRUE
         => (CholesterolPositive(i) \/ CategoryMatches(i) \/ KeywordsIn(i) # {})

\* A record with cholesterol 0, category 'Frukt' and a name without any
\* keyword has been classified and written.
C4_Witness ==
  /\ fs_output.exists
  /\ \E i \in 1..Len(applied) :
       /\ CholesterolOf(i) = Num(0)
       /\ fs_input.rows[i]["Gruppering"] = Str(<<"F","r","u","k","t">>)
       /\ KeywordsIn(i) = {}

\* The position of the keyword 'nöt' in non_vegan_keywords.
NotPosition == CHOOSE k \in 1..Len(non_vegan_keywords) : non_vegan_keywords[k] = kw_not

-----------------------------------------------------------------------------
\* Row i of df_clean with a missing Name or Category replaced by the empty
\* string.
NullAsEmpty(row) ==
  [row EXCEPT !["Name"] = IF @.kind = "nan" THEN Str(<<>>) ELSE @,
              !["Category"] = IF @.kind = "nan" THEN Str(<<>>) ELSE @]

\* The name or the category of row i is null.
NullText(i) ==
  \/ fs_input.rows[i]["Livsmedelsnamn"].kind = "nan"
  \/ fs_input.rows[i]["Gruppering"].kind = "nan"

\* C6: a record whose name or category is null is classified without
\* raising, and classified as the record with the null replaced by the
\* empty string is, whatever the other fields are.
C6_NullAsEmptyString ==
  /\ \A i \in 1..Len(applied) :
       NullText(i) => applied[i] = is_not_vegan(NullAsEmpty(df_clean.rows[i]))
  /\ (pc = "aborted" /\ raised = "TypeError" /\ Len(applied) < Len(df_clean.rows))
       => ~( /\ NullText(Len(applied) + 1)
             /\ CholesterolOf(Len(applied) + 1).kind # "str" )

\* A record with a null category, and a name with a keyword and no
\* exception substring, has been classified and written.
C6_Witness ==
  /\ fs_output.exists
  /\ \E i \in 1..Len(applied) :
       /\ fs_input.rows[i]["Gruppering"].kind = "nan"
       /\ KeywordsIn(i) # {}
       /\ ~ExceptionIn(i)
       /\ applied[i] = TRUE

FatalInput ==
  \/ ~fs_input.exists
  \/ \E k \in Range(keys) : k \notin Range(fs_input.cols)

\* C8: when the sheet cannot be read or lacks a key of columns_to_keep the
\* run ends with the error at load or selection, no row is classified and
\* the output file is never written; the output file is written only after
\* the sheet was loaded and mapped and every row was classified.
C8_FatalErrorsLeaveNoOutput ==
  /\ FatalInput =>
       /\ ~fs_output.exists
       /\ applied = <<>>
       /\ pc \in {"read_excel", "select", "aborted"}
       /\ pc = "aborted" =>
            raised = (IF fs_input.exists THEN "KeyError" ELSE "FileNotFoundError")
  /\ ~fs_input.exists => pc # "select"
  /\ fs_output.exists =>
       /\ raised = "none"
       /\ df = fs_input
       /\ df_clean.exists
       /\ Len(applied) = Len(fs_input.rows)
       /\ Derived

\* A run on a sheet of two rows without the column 'Kolesterol (mg)' has
\* aborted.
C8_Witness ==
  /\ pc = "aborted"
  /\ fs_input.exists
  /\ Len(fs_input.rows) = 2
  /\ "Kolesterol (mg)" \notin Range(fs_input.cols)
  /\ ~fs_output.exists

\* The columns of the output: the values of columns_to_keep, then IsVegan.
OutputColumns ==
  [j \in 1..(Len(columns_to_keep) + 1) |->
     IF j <= Len(columns_to_keep) THEN columns_to_keep[j][2] ELSE "IsVegan"]

\* Row i of the sheet as is_not_vegan is to see it.
Record(i) ==
  [d \in {"Name", "Category", "Cholesterol"} |->
     CASE d = "Name" -> fs_input.rows[i]["Livsmedelsnamn"]
       [] d = "Category" -> fs_input.rows[i]["Gruppering"]
       [] OTHER -> fs_input.rows[i]["Kolesterol (mg)"]]

\* The output row of row i of the sheet: its kept cells under their new
\* names and the IsVegan value of its own name, category and cholesterol.
OutputRow(i) ==
  [d \in Range(OutputColumns) |->
     IF d = "IsVegan"
     THEN Str(IF is_not_vegan(Record(i)) THEN TextFalse ELSE TextTrue)
     ELSE csv_cell(fs_input.rows[i][
            columns_to_keep[CHOOSE j \in 1..Len(columns_to_keep) :
                              columns_to_keep[j][2] = d][1]])]

\* C9: the output written has the rows of the sheet, one for one and in
\* order: as many rows as the sheet, and row i holds the kept cells of row
\* i of the sheet and the IsVegan value derived from row i.
C9_RowCountAndOrder ==
  /\ fs_output.exists =>
       /\ Len(fs_output.rows) = Len(fs_input.rows)
       /\ fs_output.cols = OutputColumns
       /\ \A i \in 1..Len(fs_input.rows) : fs_output.rows[i] = OutputRow(i)
  /\ pc = "done" => fs_output.exists

\* A sheet of two different foods, a vegan one before a non-vegan one, has
\* been written and the run is done.
C9_Witness ==
  /\ pc = "done"
  /\ Len(fs_output.rows) = 2
  /\ fs_output.rows[1]["IsVegan"] = Str(TextTrue)
  /\ fs_output.rows[2]["IsVegan"] = Str(TextFalse)
  /\ fs_output.rows[1]["Name"] # fs_output.rows[2]["Name"]

\* The first keyword, in list order, that occurs in the name of row i.
FirstKeyword(i) == CHOOSE k \in KeywordsIn(i) : \A j \in KeywordsIn(i) : k <= j

\* The match of keyword k is suppressed on row i.
Suppressed(k, i) ==
  \/ ExceptionIn(i)
  \/ non_vegan_keywords[k] = kw_not /\ NutSeedCategory(i)

\* The keyword rule is reached on row i and its first keyword found is
\* suppressed.
FirstKeywordSuppressed(i) ==
  /\ CholesterolNotPositive(i)
  /\ ~CategoryMatches(i)
  /\ KeywordsIn(i) # {}
  /\ Suppressed(FirstKeyword(i), i)

\* C10 as stated: when the first keyword found in the name is suppressed,
\* the keyword rule does not classify the record non-vegan, no later
\* keyword can flag it.
C10_FirstKeywordDecides ==
  \A i \in 1..Len(applied) : FirstKeywordSuppressed(i) => Vegan(i)

\* C10 amended: when the first keyword found is suppressed by an exception
\* substring in the name no later keyword flags the record; when it is
\* suppressed by the nut/seed category alone, the record is non-vegan
\* exactly when a further keyword occurs in the name.
C10_LaterKeywordFlags ==
  \A i \in 1..Len(applied) :
    FirstKeywordSuppressed(i) =>
      IF ~ExceptionIn(i) /\ KeywordsIn(i) # {FirstKeyword(i)}
      THEN NonVegan(i)
      ELSE Vegan(i)

\* A record with null cholesterol, a category containing 'nötter' and a
\* name with 'nöt' and 'smör' and no exception substring has been
\* classified non-vegan and written.
C10_Witness ==
  /\ fs_output.exists
  /\ \E i \in 1..Len(applied) :
       /\ CholesterolOf(i).kind = "nan"
       /\ In(lit_notter, FoldedCategory(i))
       /\ FirstKeywordSuppressed(i)
       /\ FirstKeyword(i) = NotPosition
       /\ In(<<"s","m","o_uml","r">>, FoldedName(i))
       /\ ~ExceptionIn(i)
       /\ applied[i] = TRUE

-----------------------------------------------------------------------------
\* The position of the keyword 'gris' in non_vegan_keywords.
GrisPosition ==
  CHOOSE k \in 1..Len(non_vegan_keywords) :
    non_vegan_keywords[k] = <<"g","r","i","s">>

\* The verdict non-vegan of row i under the three rules when 'gris' is
\* taken out of the keyword list.
NonVeganWithoutGris(i) ==
  \/ CholesterolPositive(i)
  \/ CategoryMatches(i)
  \/ \E k \in KeywordsIn(i) \ {GrisPosition} : ~Suppressed(k, i)

\* C11: every name that contains 'gris' contains the exception substring
\* 'ris', so a classified record whose name contains 'gris', whose
\* cholesterol is null or not greater than 0 and whose category matches no
\* non-vegan category is vegan, and every classified record has the verdict
\* it has with 'gris' taken out of the keyword list.
C11_GrisNeverFlags ==
  \A i \in 1..Len(applied) :
    /\ GrisPosition \in KeywordsIn(i) => In(<<"r","i","s">>, FoldedName(i))
    /\ ( /\ GrisPosition \in KeywordsIn(i)
         /\ CholesterolNotPositive(i)
         /\ ~CategoryMatches(i) )
         => Vegan(i)
    /\ applied[i] = NonVeganWithoutGris(i)

\* 'Gris' (keyword 'gris' only) of category 'Frukt' with cholesterol 0 has
\* been classified vegan and written.
C11_Witness ==
  /\ fs_output.exists
  /\ \E i \in 1..Len(applied) :
       /\ fs_input.rows[i]["Livsmedelsnamn"] = Str(<<"G","r","i","s">>)
       /\ fs_input.rows[i]["Gruppering"] = Str(<<"F","r","u","k","t">>)
       /\ CholesterolOf(i) = Num(0)
       /\ KeywordsIn(i) = {GrisPosition}
       /\ applied[i] = FALSE

====
